---- MODULE Spec2Model ----
(***************************************************************************)
(* Gradient utilities of the federated-learning client:                    *)
(*   python/utils/compression.py  quantize / sparsify / compress codec     *)
(*   python/utils/gradient.py     norm, clip, aggregate, statistics        *)
(*                                                                         *)
(* The functions are pure.  Each specification draws the arguments of a    *)
(* call in Init and applies the functions in its actions.                  *)
(*                                                                         *)
(* Arithmetic.  Tensor elements are float32 in the code.  The codec and    *)
(* the aggregator are modelled over exact rationals [n, d] (the inputs are *)
(* small integers, which float32 holds exactly).  The clipper, whose       *)
(* branch depends on a margin of 1e-6, is modelled over binary floating    *)
(* point with the code's widths (24-bit and 53-bit significands).          *)
(***************************************************************************)
EXTENDS Integers, Sequences, FiniteSets, TLC

VARIABLES
    pc,         \* which call has been made last ("in": none yet)
    g,          \* the GradientSet argument: a mapping name -> tensor
    sets,       \* the gradient_list argument of aggregate_gradients
    method,     \* the method argument of compress_gradients
    num_bits,   \* the num_bits argument of quantize_gradients
    sparsity,   \* the sparsity argument, in units of 1 / SparsityDen
    max_norm,   \* the max_norm argument of clip_gradients
    build,      \* what the build at hand does where the code leaves it open
    env,        \* the value returned by the first call (payload, envelope)
    out,        \* the value returned by the second call
    clip_norm,  \* the clip_norm argument of save_results
    disk        \* the files of output_dir: a mapping file name -> content

vars ==
    <<pc, g, sets, method, num_bits, sparsity, max_norm, build, env, out,
      clip_norm, disk>>

-----------------------------------------------------------------------------
(* Bounds of the model *)

\* tensors have 1..MaxLen elements
MaxLen == 3
\* tensor elements are the integers -1..MaxVal
MaxVal == 2
\* num_bits ranges over 1..MaxBits
MaxBits == 9
\* gradient_list has 0..MaxSets entries
MaxSets == 2
\* the tensors of the ratio estimate have 1..MaxRatioLen elements
MaxRatioLen == 7
\* the clipper is given elements in 0..MaxClipVal and max_norm in 1..MaxNorm
MaxClipVal == 20
MaxNorm == 5

-----------------------------------------------------------------------------
(* Python values: a call returns a value or raises *)

Ok(v) == [ok |-> TRUE, val |-> v]
Raise(e) == [ok |-> FALSE, err |-> e]
None == [ok |-> FALSE, err |-> "not called"]

\* dict.get(key, default)
Get(dict, key, default) == IF key \in DOMAIN dict THEN dict[key] ELSE default

-----------------------------------------------------------------------------
(* Exact rational arithmetic *)

Abs(x) == IF x < 0 THEN -x ELSE x

RECURSIVE Gcd(_, _)
Gcd(a, b) == IF b = 0 THEN a ELSE Gcd(b, a % b)

\* the rational n / d in lowest terms with a positive denominator (d # 0)
Rat(n, d) ==
    LET k == Gcd(Abs(n), Abs(d))
        s == IF d < 0 THEN -1 ELSE 1
    IN  [n |-> s * (n \div k), d |-> s * (d \div k)]

Int2Rat(i) == [n |-> i, d |-> 1]
Zero == Int2Rat(0)

RAdd(a, b) == Rat(a.n * b.d + b.n * a.d, a.d * b.d)
RSub(a, b) == Rat(a.n * b.d - b.n * a.d, a.d * b.d)
RMul(a, b) == Rat(a.n * b.n, a.d * b.d)
RDiv(a, b) == Rat(a.n * b.d, a.d * b.n)
RLe(a, b) == a.n * b.d <= b.n * a.d
RLt(a, b) == a.n * b.d < b.n * a.d
RAbs(a) == [n |-> Abs(a.n), d |-> a.d]
\* torch.sign
RSign(a) == Int2Rat(IF a.n > 0 THEN 1 ELSE IF a.n < 0 THEN -1 ELSE 0)
RFloor(a) == a.n \div a.d

\* Tensor.round(): to the nearest integer, halves to the even one
RRound(a) ==
    LET f == RFloor(a)
        twice == 2 * (a.n - f * a.d)
    IN  IF twice < a.d THEN f
        ELSE IF twice > a.d THEN f + 1
        ELSE IF f % 2 = 0 THEN f ELSE f + 1

\* Tensor.clamp(lo, hi) on an integer
Clamp(i, lo, hi) == IF i < lo THEN lo ELSE IF i > hi THEN hi ELSE i

RECURSIVE Pow2(_)
Pow2(k) == IF k = 0 THEN 1 ELSE 2 * Pow2(k - 1)

-----------------------------------------------------------------------------
(* Natural numbers of any size: the limbs in base 2^15, the lowest first,  *)
(* no zero limb at the top.  They carry the significands of the floats.    *)

LimbBase == Pow2(15)

Limb(a, i) == IF i <= Len(a) THEN a[i] ELSE 0

RECURSIVE BigTrim(_)
BigTrim(a) ==
    IF a = <<>> THEN a
    ELSE IF a[Len(a)] = 0 THEN BigTrim(SubSeq(a, 1, Len(a) - 1)) ELSE a

RECURSIVE BigOfInt(_)
BigOfInt(n) ==
    IF n = 0 THEN <<>> ELSE <<n % LimbBase>> \o BigOfInt(n \div LimbBase)

RECURSIVE BigCmpFrom(_, _, _)
BigCmpFrom(a, b, i) ==
    IF i = 0 THEN 0
    ELSE IF a[i] # b[i] THEN (IF a[i] < b[i] THEN -1 ELSE 1)
    ELSE BigCmpFrom(a, b, i - 1)

\* -1, 0 or 1 as a < b, a = b or a > b
BigCmp(a, b) ==
    IF Len(a) # Len(b) THEN (IF Len(a) < Len(b) THEN -1 ELSE 1)
    ELSE BigCmpFrom(a, b, Len(a))

RECURSIVE BigAddFrom(_, _, _, _)
BigAddFrom(a, b, i, carry) ==
    IF i > Len(a) /\ i > Len(b)
    THEN (IF carry = 0 THEN <<>> ELSE <<carry>>)
    ELSE LET t == Limb(a, i) + Limb(b, i) + carry
         IN  <<t % LimbBase>> \o BigAddFrom(a, b, i + 1, t \div LimbBase)

BigAdd(a, b) == BigAddFrom(a, b, 1, 0)

RECURSIVE BigSubFrom(_, _, _, _)
BigSubFrom(a, b, i, borrow) ==
    IF i > Len(a) THEN <<>>
    ELSE LET t == a[i] - Limb(b, i) - borrow
         IN  IF t < 0 THEN <<t + LimbBase>> \o BigSubFrom(a, b, i + 1, 1)
             ELSE <<t>> \o BigSubFrom(a, b, i + 1, 0)

\* a - b for a >= b
BigSub(a, b) == BigTrim(BigSubFrom(a, b, 1, 0))

RECURSIVE BigMulLimbFrom(_, _, _, _)
BigMulLimbFrom(a, k, i, carry) ==
    IF i > Len(a) THEN (IF carry = 0 THEN <<>> ELSE <<carry>>)
    ELSE LET t == a[i] * k + carry
         IN  <<t % LimbBase>> \o BigMulLimbFrom(a, k, i + 1, t \div LimbBase)

\* a * k for a limb k
BigMulLimb(a, k) == IF k = 0 THEN <<>> ELSE BigMulLimbFrom(a, k, 1, 0)

\* a * 2^(15 * q)
BigShiftLimbs(a, q) == IF a = <<>> THEN a ELSE [i \in 1..q |-> 0] \o a

RECURSIVE BigMul(_, _)
BigMul(a, b) ==
    IF b = <<>> THEN <<>>
    ELSE BigAdd(BigMulLimb(a, b[1]), BigShiftLimbs(BigMul(a, Tail(b)), 1))

\* a * 2^k
BigShl(a, k) == BigShiftLimbs(BigMulLimb(a, Pow2(k % 15)), k \div 15)

RECURSIVE BigDivLimbFrom(_, _, _, _)
BigDivLimbFrom(a, d, i, rem) ==
    IF i = 0 THEN <<>>
    ELSE LET cur == rem * LimbBase + a[i]
         IN  BigDivLimbFrom(a, d, i - 1, cur % d) \o <<cur \div d>>

\* floor(a / 2^k)
BigShr(a, k) ==
    LET q == k \div 15
        high == IF q >= Len(a) THEN <<>> ELSE SubSeq(a, q + 1, Len(a))
    IN  BigTrim(BigDivLimbFrom(high, Pow2(k % 15), Len(high), 0))

RECURSIVE IntBitLen(_)
IntBitLen(n) == IF n = 0 THEN 0 ELSE 1 + IntBitLen(n \div 2)

\* the number of binary digits of a
BigBitLen(a) ==
    IF a = <<>> THEN 0 ELSE 15 * (Len(a) - 1) + IntBitLen(a[Len(a)])

\* binary digit i of a, the lowest being digit 0
BigBit(a, i) == (Limb(a, (i \div 15) + 1) \div Pow2(i % 15)) % 2

BigOne == <<1>>

\* one step of the long division of n by d, at binary digit i of n
BigDivBit(n, d, st, i) ==
    LET r2 == BigAdd(BigAdd(st.r, st.r), BigOfInt(BigBit(n, i)))
        q2 == BigAdd(st.q, st.q)
    IN  IF BigCmp(r2, d) >= 0
        THEN [q |-> BigAdd(q2, BigOne), r |-> BigSub(r2, d)]
        ELSE [q |-> q2, r |-> r2]

RECURSIVE BigDivBits(_, _, _, _, _)
\* the steps for the digits hi down to lo
BigDivBits(n, d, st, hi, lo) ==
    IF hi < lo THEN st
    ELSE IF hi = lo THEN BigDivBit(n, d, st, hi)
    ELSE LET mid == (hi + lo + 1) \div 2
             upper == BigDivBits(n, d, st, hi, mid)
         IN  \* the remainder stays below the divisor
             IF BigCmp(upper.r, d) < 0
             THEN BigDivBits(n, d, upper, mid - 1, lo)
             ELSE upper

\* quotient and remainder of n by d > 0
BigDivMod(n, d) ==
    BigDivBits(n, d, [q |-> <<>>, r |-> <<>>], BigBitLen(n) - 1, 0)

\* one step of the square root of n: binary digit i of the root
BigSqrtBit(n, res, i) ==
    LET cand == BigAdd(res, BigShl(BigOne, i))
    IN  IF BigCmp(BigMul(cand, cand), n) <= 0 THEN cand ELSE res

RECURSIVE BigSqrtBits(_, _, _, _)
BigSqrtBits(n, res, hi, lo) ==
    IF hi < lo THEN res
    ELSE IF hi = lo THEN BigSqrtBit(n, res, hi)
    ELSE LET mid == (hi + lo + 1) \div 2
             upper == BigSqrtBits(n, res, hi, mid)
         IN  \* the root found so far stays at or below n
             IF BigCmp(upper, n) <= 0
             THEN BigSqrtBits(n, upper, mid - 1, lo)
             ELSE upper

\* floor(sqrt(n))
BigSqrt(n) == BigSqrtBits(n, <<>>, BigBitLen(n) \div 2, 0)

-----------------------------------------------------------------------------
(* Binary floating point: the value s * m * 2^e with s = 1 or -1 and m a   *)
(* natural number, kept with m odd (zero: m = <<>>, e = 0, s = 1).  The    *)
(* exponent range is not modelled: nothing here overflows or underflows.   *)

\* significand widths of torch.float32 and of a Python float
SingleBits == 24
DoubleBits == 53

FZero == [s |-> 1, m |-> <<>>, e |-> 0]

RECURSIVE LowZeros(_)
\* the number of zero binary digits at the low end of n > 0
LowZeros(n) == IF n % 2 = 1 THEN 0 ELSE 1 + LowZeros(n \div 2)

RECURSIVE Canon(_)
Canon(x) ==
    IF x.m = <<>> THEN FZero
    ELSE IF x.m[1] = 0
    THEN Canon([s |-> x.s, m |-> Tail(x.m), e |-> x.e + 15])
    ELSE LET z == LowZeros(x.m[1])
         IN  [s |-> x.s, m |-> BigShr(x.m, z), e |-> x.e + z]

\* the float of an integer
FOfInt(i) == Canon([s |-> IF i < 0 THEN -1 ELSE 1, m |-> BigOfInt(Abs(i)), e |-> 0])

\* m (with `sticky`: plus a non-zero fraction below it) rounded to p binary
\* digits, to nearest, ties to even: the digits kept and the digits dropped
RoundMant(m, sticky, p) ==
    LET len == BigBitLen(m)
        sh == len - p
    IN  IF sh <= 0 THEN [q |-> m, sh |-> 0]
        ELSE LET q == BigShr(m, sh)
                 rem == BigSub(m, BigShl(q, sh))
                 c == BigCmp(rem, BigShl(BigOne, sh - 1))
                 up == c > 0 \/ (c = 0 /\ (sticky \/ BigBit(q, 0) = 1))
             IN  [q |-> IF up THEN BigAdd(q, BigOne) ELSE q, sh |-> sh]

\* x rounded to a significand of p binary digits
FRound(x, p) ==
    LET r == RoundMant(x.m, FALSE, p)
    IN  Canon([s |-> x.s, m |-> r.q, e |-> x.e + r.sh])

\* the exact product
FMulExact(a, b) ==
    Canon([s |-> a.s * b.s, m |-> BigMul(a.m, b.m), e |-> a.e + b.e])

\* the exact sum of two values that are not negative
FAddExact(a, b) ==
    LET e == IF a.e < b.e THEN a.e ELSE b.e
    IN  Canon([s |-> 1,
               m |-> BigAdd(BigShl(a.m, a.e - e), BigShl(b.m, b.e - e)),
               e |-> e])

\* a < b for two values that are not negative
FLt(a, b) ==
    LET e == IF a.e < b.e THEN a.e ELSE b.e
    IN  BigCmp(BigShl(a.m, a.e - e), BigShl(b.m, b.e - e)) < 0

\* a / b rounded to p binary digits (b # 0)
FDiv(a, b, p) ==
    IF a.m = <<>> THEN FZero
    ELSE LET need == p + 2 + BigBitLen(b.m) - BigBitLen(a.m)
             k == IF need < 0 THEN 0 ELSE need
             qr == BigDivMod(BigShl(a.m, k), b.m)
             r == RoundMant(qr.q, qr.r # <<>>, p)
         IN  Canon([s |-> a.s * b.s, m |-> r.q, e |-> a.e - b.e - k + r.sh])

\* sqrt(a) rounded to p binary digits (a >= 0)
FSqrt(a, p) ==
    IF a.m = <<>> THEN FZero
    ELSE LET m1 == IF a.e % 2 = 0 THEN a.m ELSE BigShl(a.m, 1)
             e1 == IF a.e % 2 = 0 THEN a.e ELSE a.e - 1
             need == 2 * (p + 2) - BigBitLen(m1)
             k == IF need < 0 THEN 0 ELSE (need + 1) \div 2
             n == BigShl(m1, 2 * k)
             root == BigSqrt(n)
             r == RoundMant(root, BigMul(root, root) # n, p)
         IN  Canon([s |-> 1, m |-> r.q, e |-> (e1 \div 2) - k + r.sh])

-----------------------------------------------------------------------------
(* Tensors and gradient sets *)

\* a tensor: its shape and its elements in row-major (flattened) order
Tensor(shape, data) == [shape |-> shape, data |-> data]

RECURSIVE Prod(_)
Prod(s) == IF s = <<>> THEN 1 ELSE Head(s) * Prod(Tail(s))

\* Tensor.numel()
Numel(t) == Len(t.data)

RECURSIVE SeqMin(_)
SeqMin(s) ==
    IF Len(s) = 1 THEN s[1]
    ELSE LET m == SeqMin(Tail(s)) IN IF RLe(s[1], m) THEN s[1] ELSE m

RECURSIVE SeqMax(_)
SeqMax(s) ==
    IF Len(s) = 1 THEN s[1]
    ELSE LET m == SeqMax(Tail(s)) IN IF RLe(m, s[1]) THEN s[1] ELSE m

\* the shapes of a tensor of n elements that the model draws
ShapesOf(n) == {<<n>>, <<n, 1>>}

\* the float tensors of n elements with elements in lo..hi
TensorsOver(n, lo, hi) ==
    {Tensor(sh, [i \in 1..n |-> Int2Rat(d[i])]) :
        sh \in ShapesOf(n), d \in [1..n -> lo..hi]}

Tensors == UNION {TensorsOver(n, 0 - 1, MaxVal) : n \in 1..MaxLen}

\* parameter names
Names == {"w", "b"}

\* the gradient sets the codec specifications draw: one tensor "w", with or
\* without a one-element tensor "b"
GradientSets ==
    {[name \in {"w"} |-> t] : t \in Tensors}
    \cup {[name \in Names |-> IF name = "w" THEN t ELSE u] :
            t \in Tensors, u \in TensorsOver(1, 0 - 1, MaxVal)}

\* the same names with the same shapes
SameLayout(a, b) ==
    /\ DOMAIN a = DOMAIN b
    /\ \A name \in DOMAIN a : a[name].shape = b[name].shape

-----------------------------------------------------------------------------
(* compression.py: the quantizer *)

\* Tensor.to(torch.uint8) of an integral float.  A value outside 0..255 has
\* no defined conversion: a build either wraps it modulo 256 or saturates.
ToUint8(v, cast) ==
    IF v >= 0 /\ v <= 255 THEN v
    ELSE IF cast = "wrap" THEN v % 256
    ELSE IF v < 0 THEN 0 ELSE 255

\* scale = (max_val - min_val) / (2 ** num_bits - 1)
ScaleOf(t, bits) ==
    RDiv(RSub(SeqMax(t.data), SeqMin(t.data)), Int2Rat(Pow2(bits) - 1))

\* a quantizer that truncates where the code rounds
QuantLevelTruncating(x, zero_point, scale, bits) ==
    Clamp(RFloor(RDiv(RSub(x, zero_point), scale)), 0, Pow2(bits) - 1)

\* ((grad - zero_point) / scale).round().clamp(0, 2 ** num_bits - 1)
QuantLevel(x, zero_point, scale, bits) ==
    Clamp(RRound(RDiv(RSub(x, zero_point), scale)), 0, Pow2(bits) - 1)

\* the body of the loop of quantize_gradients for one tensor:
\* the uint8 tensor and its {'scale', 'zero_point'}
QuantizeTensor(t, bits, cast) ==
    LET min_val == SeqMin(t.data)
        scale == ScaleOf(t, bits)
        zero_point == min_val
    IN  IF RLt(Zero, scale)
        THEN [q |-> Tensor(t.shape,
                       [i \in 1..Len(t.data) |->
                           ToUint8(QuantLevel(t.data[i], zero_point, scale, bits), cast)]),
              p |-> [scale |-> scale, zero_point |-> zero_point]]
        ELSE [q |-> Tensor(t.shape, [i \in 1..Len(t.data) |-> 0]),
              p |-> [scale |-> Zero, zero_point |-> min_val]]

quantize_gradients(gradients, bits, cast) ==
    [gradients |-> [name \in DOMAIN gradients |->
                        QuantizeTensor(gradients[name], bits, cast).q],
     params    |-> [name \in DOMAIN gradients |->
                        QuantizeTensor(gradients[name], bits, cast).p]]

\* quantized_grad.float() * scale + zero_point
DequantizeTensor(q, p) ==
    Tensor(q.shape,
           [i \in 1..Len(q.data) |->
               RAdd(RMul(Int2Rat(q.data[i]), p.scale), p.zero_point)])

dequantize_gradients(quantized_data) ==
    IF "gradients" \notin DOMAIN quantized_data THEN Raise("KeyError")
    ELSE IF "params" \notin DOMAIN quantized_data THEN Raise("KeyError")
    ELSE LET quantized == quantized_data["gradients"]
             params == quantized_data["params"]
         IN  IF \E name \in DOMAIN quantized : name \notin DOMAIN params
             THEN Raise("KeyError")
             ELSE Ok([name \in DOMAIN quantized |->
                         DequantizeTensor(quantized[name], params[name])])

-----------------------------------------------------------------------------
(* compression.py: the sparsifier *)

\* the specifications draw the sparsity in units of 1 / SparsityDen
SparsityDen == 4

\* the sparsity argument: a number in [0, 1)
Sparsity(units) == Rat(units, SparsityDen)

\* numel * (1 - sparsity)
KeepCount(n, s) == RMul(Int2Rat(n), RSub(Int2Rat(1), s))

\* k = int(numel * (1 - sparsity)); if k == 0: k = 1
TopKSize(n, s) ==
    LET k == RFloor(KeepCount(n, s)) IN IF k = 0 THEN 1 ELSE k

\* the position torch.topk takes next: the largest of the positions left;
\* which one among equal values is the implementation's choice
ArgMax(a, left, tie) ==
    LET best == {i \in left : \A j \in left : RLe(a[j], a[i])}
    IN  IF tie = "low"
        THEN CHOOSE i \in best : \A j \in best : i <= j
        ELSE CHOOSE i \in best : \A j \in best : j <= i

\* torch.topk(a, k).indices as positions 1..Len(a), largest first
RECURSIVE TopK(_, _, _, _)
TopK(a, k, left, tie) ==
    IF k = 0 THEN <<>>
    ELSE LET i == ArgMax(a, left, tie)
         IN  <<i>> \o TopK(a, k - 1, left \ {i}, tie)

\* a sparsifier that ranks the signed values where the code ranks magnitudes
SparsifyTensorSigned(t, s, tie) ==
    LET flat_grad == t.data
        k == TopKSize(Len(flat_grad), s)
        pos == TopK(flat_grad, k, 1..Len(flat_grad), tie)
    IN  [values  |-> [j \in 1..k |-> flat_grad[pos[j]]],
         indices |-> [j \in 1..k |-> pos[j] - 1],
         shape   |-> t.shape]

\* the body of the loop of sparsify_gradients for one tensor
SparsifyTensor(t, s, tie) ==
    LET flat_grad == t.data
        k == TopKSize(Len(flat_grad), s)
        absval == [i \in 1..Len(flat_grad) |-> RAbs(flat_grad[i])]
        pos == TopK(absval, k, 1..Len(flat_grad), tie)
    IN  [values  |-> [j \in 1..k |->
                         RMul(absval[pos[j]], RSign(flat_grad[pos[j]]))],
         indices |-> [j \in 1..k |-> pos[j] - 1],
         shape   |-> t.shape]

sparsify_gradients(gradients, s, tie) ==
    [name \in DOMAIN gradients |-> SparsifyTensor(gradients[name], s, tie)]

\* dense_grad = zeros(prod(shape)); dense_grad[indices] = values; reshape
DensifyTensor(sparse_data) ==
    LET shape == sparse_data.shape
        values == sparse_data.values
        indices == sparse_data.indices
        Hits(i) == {j \in 1..Len(indices) : indices[j] = i - 1}
    IN  Tensor(shape,
               [i \in 1..Prod(shape) |->
                   IF Hits(i) = {} THEN Zero
                   ELSE values[CHOOSE j \in Hits(i) : \A h \in Hits(i) : h <= j]])

densify_gradients(sparse_gradients) ==
    Ok([name \in DOMAIN sparse_gradients |->
           DensifyTensor(sparse_gradients[name])])

-----------------------------------------------------------------------------
(* compression.py: the facade and the ratio estimate *)

Methods == {"none", "quantize", "sparsify"}

\* a method name compress_gradients does not know
OtherMethod == "gzip"

\* kwargs carries num_bits and sparsity
compress_gradients(gradients, m, kwargs, bld) ==
    IF m = "quantize"
    THEN Ok(quantize_gradients(gradients, kwargs.num_bits, bld.cast))
    ELSE IF m = "sparsify"
    THEN Ok(sparsify_gradients(gradients, kwargs.sparsity, bld.tie))
    ELSE IF m = "none"
    THEN Ok([gradients |-> gradients, method |-> "none"])
    ELSE Raise("ValueError")

decompress_gradients(compressed_data) ==
    LET m == Get(compressed_data, "method", "quantize")
    IN  IF m = "quantize" THEN dequantize_gradients(compressed_data)
        ELSE IF m = "sparsify"
        THEN IF "gradients" \in DOMAIN compressed_data
             THEN densify_gradients(compressed_data["gradients"])
             ELSE Raise("KeyError")
        ELSE IF m = "none"
        THEN IF "gradients" \in DOMAIN compressed_data
             THEN Ok(compressed_data["gradients"])
             ELSE Raise("KeyError")
        ELSE Raise("ValueError")

RECURSIVE SumOver(_)
\* sum(... for ... in d.values()), sizes the size of each value by name
SumOver(sizes) ==
    IF DOMAIN sizes = {} THEN 0
    ELSE LET k == CHOOSE k \in DOMAIN sizes : TRUE
         IN  sizes[k] + SumOver([j \in DOMAIN sizes \ {k} |-> sizes[j]])

\* list(compressed.values())[0]: the value of the key inserted first
FirstValue(compressed) ==
    IF "gradients" \in DOMAIN compressed THEN compressed["gradients"]
    ELSE compressed[CHOOSE k \in DOMAIN compressed : TRUE]

\* sum(grad.numel() * 4 for grad in original.values())
DenseBytes(original) ==
    SumOver([n \in DOMAIN original |->
                 Numel(original[n]) * 4])

\* an estimate that leaves out the 16 bytes of parameters per tensor
CompressedBytesNoOverhead(original, compressed) ==
    IF "params" \in DOMAIN compressed
    THEN SumOver([n \in DOMAIN compressed["gradients"] |->
                 Numel(compressed["gradients"][n])])
    ELSE IF "values" \in DOMAIN FirstValue(compressed)
    THEN SumOver([n \in DOMAIN compressed |->
                 Len(compressed[n].values) * 4 + Len(compressed[n].indices) * 4])
    ELSE DenseBytes(original)

\* the size the estimate gives the compressed value
CompressedBytes(original, compressed) ==
    IF "params" \in DOMAIN compressed
    THEN SumOver([n \in DOMAIN compressed["gradients"] |->
                 Numel(compressed["gradients"][n])])
               + Cardinality(DOMAIN compressed["params"]) * 16
    ELSE IF "values" \in DOMAIN FirstValue(compressed)
    THEN SumOver([n \in DOMAIN compressed |->
                 Len(compressed[n].values) * 4 + Len(compressed[n].indices) * 4])
    ELSE DenseBytes(original)

estimate_compression_ratio(original, compressed) ==
    LET original_size == DenseBytes(original)
        compressed_size == CompressedBytes(original, compressed)
    IN  IF compressed_size > 0
        THEN Ok(Rat(original_size, compressed_size))
        ELSE Ok(Int2Rat(1))


-----------------------------------------------------------------------------
(* gradient.py: the norm and the clipper, over binary floating point *)

\* a float32 tensor of the given integers
FloatTensor(shape, ints) ==
    Tensor(shape, [i \in 1..Len(ints) |-> FOfInt(ints[i])])

RECURSIVE SumSquares(_, _)
\* the float32 sum of the squares of data[1..i]
SumSquares(data, i) ==
    IF i = 0 THEN FZero
    ELSE FRound(FAddExact(SumSquares(data, i - 1),
                          FRound(FMulExact(data[i], data[i]), SingleBits)),
                SingleBits)

\* grad.norm(2): a float32
TensorNorm(t) == FSqrt(SumSquares(t.data, Len(t.data)), SingleBits)

RECURSIVE NormSquared(_)
\* total_norm after the loop: the sum over the tensors of
\* grad.norm(2).item() ** 2, in Python floats
NormSquared(gradients) ==
    IF DOMAIN gradients = {} THEN FZero
    ELSE LET name == CHOOSE k \in DOMAIN gradients : TRUE
             n == TensorNorm(gradients[name])
             rest == [k \in DOMAIN gradients \ {name} |-> gradients[k]]
         IN  FRound(FAddExact(NormSquared(rest),
                              FRound(FMulExact(n, n), DoubleBits)),
                    DoubleBits)

\* total_norm ** 0.5
compute_gradient_norm(gradients) == FSqrt(NormSquared(gradients), DoubleBits)

\* the Python float 1e-6
Epsilon == FDiv(FOfInt(1), FOfInt(1000000), DoubleBits)

\* max_norm / (current_norm + 1e-6)
ClipCoef(current_norm, m) ==
    FDiv(m, FRound(FAddExact(current_norm, Epsilon), DoubleBits), DoubleBits)

\* grad * clip_coef for one element: float32 times a Python scalar, which
\* the kernel takes as a float32 or as a double, by build
ScaleElement(x, clip_coef, scalar) ==
    FRound(FMulExact(x, IF scalar = "single"
                        THEN FRound(clip_coef, SingleBits)
                        ELSE clip_coef),
           SingleBits)

\* max_norm is a Python float holding the integer m
clip_gradients(gradients, m, scalar) ==
    LET current_norm == compute_gradient_norm(gradients)
    IN  IF FLt(FOfInt(m), current_norm)
        THEN LET clip_coef == ClipCoef(current_norm, FOfInt(m))
             IN  [name \in DOMAIN gradients |->
                     Tensor(gradients[name].shape,
                            [i \in 1..Len(gradients[name].data) |->
                                ScaleElement(gradients[name].data[i],
                                             clip_coef, scalar)])]
        ELSE gradients

-----------------------------------------------------------------------------
(* gradient.py: the aggregator and the statistics, over exact rationals *)

\* the empty dict
EmptyDict == [name \in {} |-> name]

\* shape sh with ones in front, to r dimensions
PadLeft(sh, r) ==
    [i \in 1..r |-> IF i <= r - Len(sh) THEN 1 ELSE sh[i - (r - Len(sh))]]

\* whether `dst += src` broadcasts src to the shape of dst.  It raises
\* when the broadcast of the two shapes is not the shape of dst.
CanAddInPlace(dst, src) ==
    /\ Len(src) <= Len(dst)
    /\ \A i \in 1..Len(dst) :
          PadLeft(src, Len(dst))[i] \in {dst[i], 1}

\* the row-major stride of dimension i of shape sh
Stride(sh, i) == Prod(SubSeq(sh, i + 1, Len(sh)))

RECURSIVE SourceOffset(_, _, _, _)
\* the flat offset in src (of shape p, padded) of flat offset f of dst
SourceOffset(f, dst, p, i) ==
    IF i > Len(dst) THEN 0
    ELSE LET idx == (f \div Stride(dst, i)) % dst[i]
         IN  (IF p[i] = 1 THEN 0 ELSE idx * Stride(p, i))
                + SourceOffset(f, dst, p, i + 1)

\* an accumulator that starts as a copy of the tensor instead of zeros
CloneLike(t) == t

\* torch.zeros_like(grad)
ZerosLike(t) == Tensor(t.shape, [i \in 1..Len(t.data) |-> Zero])

\* aggregated[name] += grad
AddInPlace(acc, grad) ==
    LET p == PadLeft(grad.shape, Len(acc.shape))
    IN  Tensor(acc.shape,
               [i \in 1..Len(acc.data) |->
                   RAdd(acc.data[i],
                        grad.data[SourceOffset(i - 1, acc.shape, p, 1) + 1])])

\* the order in which the items of a gradient set come
NameOrder == <<"w", "b">>

RECURSIVE AddItems(_, _, _)
\* for name, grad in gradients.items(): aggregated[name] += grad
AddItems(aggregated, gradients, names) ==
    IF names = <<>> THEN Ok(aggregated)
    ELSE LET name == Head(names)
         IN  IF name \notin DOMAIN gradients
             THEN AddItems(aggregated, gradients, Tail(names))
             ELSE IF name \notin DOMAIN aggregated THEN Raise("KeyError")
             ELSE IF ~CanAddInPlace(aggregated[name].shape, gradients[name].shape)
             THEN Raise("RuntimeError")
             ELSE AddItems([aggregated EXCEPT
                               ![name] = AddInPlace(@, gradients[name])],
                           gradients, Tail(names))

RECURSIVE SumAll(_, _)
\* for gradients in gradient_list: ...
SumAll(aggregated, gradient_list) ==
    IF gradient_list = <<>> THEN Ok(aggregated)
    ELSE LET r == AddItems(aggregated, Head(gradient_list), NameOrder)
         IN  IF r.ok THEN SumAll(r.val, Tail(gradient_list)) ELSE r

aggregate_gradients(gradient_list) ==
    IF gradient_list = <<>> THEN Ok(EmptyDict)
    ELSE LET first == gradient_list[1]
             zeros == [name \in DOMAIN first |-> ZerosLike(first[name])]
             summed == SumAll(zeros, gradient_list)
             num_gradients == Len(gradient_list)
         IN  IF ~summed.ok THEN summed
             ELSE Ok([name \in DOMAIN first |->
                         Tensor(summed.val[name].shape,
                                [i \in 1..Len(summed.val[name].data) |->
                                    RDiv(summed.val[name].data[i],
                                         Int2Rat(num_gradients))])])

RECURSIVE SeqSum(_)
SeqSum(q) == IF q = <<>> THEN Zero ELSE RAdd(Head(q), SeqSum(Tail(q)))

\* the float32 tensor of a tensor of rationals
ToFloat(t) ==
    Tensor(t.shape,
           [i \in 1..Len(t.data) |->
               FDiv(FOfInt(t.data[i].n), FOfInt(t.data[i].d), SingleBits)])

\* the largest (dir = 1) or smallest (dir = -1) of the values
Extreme(vals, dir) ==
    CHOOSE v \in vals :
           \A u \in vals : IF dir = 1 THEN RLe(u, v) ELSE RLe(v, u)

AbsMax(t) == SeqMax([i \in 1..Len(t.data) |-> RAbs(t.data[i])])
AbsMin(t) == SeqMin([i \in 1..Len(t.data) |-> RAbs(t.data[i])])
Mean(t) == RDiv(SeqSum(t.data), Int2Rat(Len(t.data)))

RECURSIVE SumOfMeans(_)
SumOfMeans(gradients) ==
    IF DOMAIN gradients = {} THEN Zero
    ELSE LET k == CHOOSE k \in DOMAIN gradients : TRUE
         IN  RAdd(Mean(gradients[k]),
                  SumOfMeans([j \in DOMAIN gradients \ {k} |-> gradients[j]]))

\* max() of an empty sequence raises ValueError
gradient_statistics(gradients) ==
    IF DOMAIN gradients = {} THEN Raise("ValueError")
    ELSE Ok([num_parameters |-> Cardinality(DOMAIN gradients),
             total_elements |->
                 SumOver([n \in DOMAIN gradients |->
                 Numel(gradients[n])]),
             l2_norm |->
                 compute_gradient_norm(
                     [name \in DOMAIN gradients |-> ToFloat(gradients[name])]),
             max_value |-> 
                 Extreme({AbsMax(gradients[name]) : name \in DOMAIN gradients}, 1),
             min_value |-> 
                 Extreme({AbsMin(gradients[name]) : name \in DOMAIN gradients}, -1),
             mean_value |->
                 RDiv(SumOfMeans(gradients),
                      Int2Rat(Cardinality(DOMAIN gradients)))])

-----------------------------------------------------------------------------
(* What a build leaves open: the uint8 conversion of an out-of-range      *)
(* value, the order torch.topk gives equal values, the width in which a   *)
(* float32 kernel takes a Python scalar, and whether the import of the    *)
(* utilities by train.py succeeded                                        *)

Casts == {"wrap", "saturate"}
Ties == {"low", "high"}
Scalars == {"single", "double"}
DefaultBuild ==
    [cast |-> "wrap", tie |-> "low", scalar |-> "single", utils |-> TRUE]

\* the arguments a specification does not use
Unused ==
    /\ pc = "in"
    /\ env = None
    /\ out = None
    /\ clip_norm = None
    /\ disk = EmptyDict

-----------------------------------------------------------------------------
(* train.py: save_results *)

\* the arguments save_results gives compress_gradients
SaveBits == 8
SaveSparsity == Rat(9, 10)

\* the files save_results writes in output_dir
GradientsFile == "gradients.pt"
MetricsFile == "metrics.json"

\* what a call without a return statement returns
Returned == Ok("None")

RECURSIVE BigToInt(_)
BigToInt(a) == IF a = <<>> THEN 0 ELSE a[1] + LimbBase * BigToInt(Tail(a))

\* the value of a float as an exact rational
FromFloat(x) ==
    IF x.e >= 0 THEN Int2Rat(x.s * BigToInt(x.m) * Pow2(x.e))
    ELSE Rat(x.s * BigToInt(x.m), Pow2(0 - x.e))

\* the float32 tensors the trainer holds
FloatsOf(gradients) ==
    [name \in DOMAIN gradients |-> ToFloat(gradients[name])]

\* what clip_gradients returned: its argument, or new tensors of the
\* scaled values
ClipResult(gradients, floats, clipped) ==
    IF clipped = floats THEN gradients
    ELSE [name \in DOMAIN gradients |->
             Tensor(clipped[name].shape,
                    [i \in 1..Len(clipped[name].data) |->
                        FromFloat(clipped[name].data[i])])]

ClipFloats(gradients, floats, norm, scalar) ==
    ClipResult(gradients, floats, clip_gradients(floats, norm, scalar))

\* gradients = clip_gradients(gradients, max_norm=clip_norm)
ClipStep(gradients, norm, scalar) ==
    ClipFloats(gradients, FloatsOf(gradients), norm, scalar)

\* torch.save(content, path), json.dump(content, f)
Write(files, name, content) ==
    [f \in DOMAIN files \cup {name} |->
        IF f = name THEN content ELSE files[f]]

\* results as train_model returns them
Results(gradients) ==
    [loss |-> "final_loss", accuracy |-> "final_accuracy",
     gradients |-> gradients]

\* the gradients after the clipping step
ClippedGradients(results, clip, bld) ==
    IF clip.ok /\ bld.utils
    THEN ClipStep(results.gradients, clip.val, bld.scalar)
    ELSE results.gradients

\* the metrics record
Metrics(results, compression_method) ==
    [loss |-> results.loss,
     accuracy |-> results.accuracy,
     compression_method |-> compression_method]

\* the local `compressed` of the compressing branch
CompressedFor(gradients, compression_method, bld) ==
    IF compression_method = "quantize"
    THEN compress_gradients(gradients, "quantize",
                            [num_bits |-> SaveBits], bld)
    ELSE IF compression_method = "sparsify"
    THEN compress_gradients(gradients, "sparsify",
                            [sparsity |-> SaveSparsity], bld)
    ELSE Ok([gradients |-> gradients, method |-> "none"])

\* the compressing branch after `compressed` is bound: the ratio, then
\* the two files
SaveCompressed(files, compressed, ratio, metrics) ==
    IF ~compressed.ok
    THEN [ret |-> compressed, compressed |-> None, disk |-> files]
    ELSE IF ~ratio.ok
    THEN [ret |-> ratio, compressed |-> compressed, disk |-> files]
    ELSE [ret |-> Returned,
          compressed |-> compressed,
          disk |-> Write(Write(files, GradientsFile, compressed.val),
                         MetricsFile, metrics)]

CompressAndSave(files, gradients, compressed, metrics) ==
    SaveCompressed(files, compressed,
                   estimate_compression_ratio(gradients, compressed.val),
                   metrics)

\* save_results from the clipping step on
SaveGradients(files, gradients, compression_method, metrics, bld) ==
    IF compression_method # "none" /\ bld.utils
    THEN CompressAndSave(files, gradients,
                         CompressedFor(gradients, compression_method, bld),
                         metrics)
    ELSE [ret |-> Returned, compressed |-> None,
          disk |-> Write(Write(files, GradientsFile, gradients),
                         MetricsFile, metrics)]

\* the value returned, the local `compressed` and the files afterwards
save_results(files, results, compression_method, clip, bld) ==
    SaveGradients(files, ClippedGradients(results, clip, bld),
                  compression_method, Metrics(results, compression_method),
                  bld)

-----------------------------------------------------------------------------
(* SpecQuant: quantize_gradients, then dequantize_gradients of its result *)

InitQuant ==
    /\ Unused
    /\ g \in GradientSets
    /\ num_bits \in 1..MaxBits
    /\ build \in {[DefaultBuild EXCEPT !.cast = c] :
                    c \in IF num_bits > 8 THEN Casts ELSE {"wrap"}}
    /\ sets = <<>>
    /\ method = "quantize"
    /\ sparsity = 0
    /\ max_norm = 0

Quantize ==
    /\ pc = "in"
    /\ env' = Ok(quantize_gradients(g, num_bits, build.cast))
    /\ pc' = "quantized"
    /\ UNCHANGED <<g, sets, method, num_bits, sparsity, max_norm, build, out,
                   clip_norm, disk>>

Dequantize ==
    /\ pc = "quantized"
    /\ out' = dequantize_gradients(env.val)
    /\ pc' = "dequantized"
    /\ UNCHANGED <<g, sets, method, num_bits, sparsity, max_norm, build, env,
                   clip_norm, disk>>

NextQuant == Quantize \/ Dequantize

SpecQuant == InitQuant /\ [][NextQuant]_vars

-----------------------------------------------------------------------------
(* SpecSparse: sparsify_gradients, then densify_gradients of its result *)

InitSparse ==
    /\ Unused
    /\ g \in GradientSets
    /\ sparsity \in 0..(SparsityDen - 1)
    /\ build \in {[DefaultBuild EXCEPT !.tie = t] : t \in Ties}
    /\ sets = <<>>
    /\ method = "sparsify"
    /\ num_bits = 8
    /\ max_norm = 0

Sparsify ==
    /\ pc = "in"
    /\ env' = Ok(sparsify_gradients(g, Sparsity(sparsity), build.tie))
    /\ pc' = "sparsified"
    /\ UNCHANGED <<g, sets, method, num_bits, sparsity, max_norm, build, out,
                   clip_norm, disk>>

Densify ==
    /\ pc = "sparsified"
    /\ out' = densify_gradients(env.val)
    /\ pc' = "densified"
    /\ UNCHANGED <<g, sets, method, num_bits, sparsity, max_norm, build, env,
                   clip_norm, disk>>

NextSparse == Sparsify \/ Densify

SpecSparse == InitSparse /\ [][NextSparse]_vars

-----------------------------------------------------------------------------
(* SpecCodec: compress_gradients, then decompress_gradients of the envelope *)

InitCodec ==
    /\ Unused
    /\ g \in GradientSets
    /\ method \in Methods \cup {OtherMethod}
    /\ num_bits \in IF method = "quantize" THEN 1..8 ELSE {8}
    /\ sparsity \in IF method = "sparsify" THEN 0..(SparsityDen - 1) ELSE {0}
    /\ build \in {[DefaultBuild EXCEPT !.tie = t] :
                    t \in IF method = "sparsify" THEN Ties ELSE {"low"}}
    /\ sets = <<>>
    /\ max_norm = 0

Compress ==
    /\ pc = "in"
    /\ env' = compress_gradients(g, method,
                  [num_bits |-> num_bits, sparsity |-> Sparsity(sparsity)],
                  build)
    /\ pc' = "compressed"
    /\ UNCHANGED <<g, sets, method, num_bits, sparsity, max_norm, build, out,
                   clip_norm, disk>>

\* the receiver has the envelope and nothing else
Decompress ==
    /\ pc = "compressed"
    /\ env.ok
    /\ out' = decompress_gradients(env.val)
    /\ pc' = "decompressed"
    /\ UNCHANGED <<g, sets, method, num_bits, sparsity, max_norm, build, env,
                   clip_norm, disk>>

NextCodec == Compress \/ Decompress

SpecCodec == InitCodec /\ [][NextCodec]_vars

-----------------------------------------------------------------------------
(* SpecRatio: compress_gradients, then estimate_compression_ratio *)

\* 0/1 tensors "w" of up to MaxRatioLen elements, alone or beside an
\* all-zero tensor "b"
RatioSets ==
    LET W == UNION {TensorsOver(n, 0, 1) : n \in 1..MaxRatioLen}
        B == UNION {TensorsOver(n, 0, 0) : n \in 1..MaxRatioLen}
    IN  {[name \in {"w"} |-> t] : t \in W}
        \cup {[name \in Names |-> IF name = "w" THEN t ELSE u] : t \in W, u \in B}

InitRatio ==
    /\ Unused
    /\ g \in RatioSets
    /\ method \in Methods
    /\ num_bits = 8
    /\ sparsity \in IF method = "sparsify" THEN 0..(SparsityDen - 1) ELSE {0}
    /\ build = DefaultBuild
    /\ sets = <<>>
    /\ max_norm = 0

EstimateRatio ==
    /\ pc = "compressed"
    /\ env.ok
    /\ out' = estimate_compression_ratio(g, env.val)
    /\ pc' = "estimated"
    /\ UNCHANGED <<g, sets, method, num_bits, sparsity, max_norm, build, env,
                   clip_norm, disk>>

NextRatio == Compress \/ EstimateRatio

SpecRatio == InitRatio /\ [][NextRatio]_vars

-----------------------------------------------------------------------------
(* SpecClip: clip_gradients, then clip_gradients of its result *)

\* two float32 tensors of one element each
ClipSets ==
    {[name \in Names |->
        FloatTensor(<<1>>, <<IF name = "w" THEN x ELSE y>>)] :
        x \in 0..MaxClipVal, y \in {0, 4, MaxClipVal}}

InitClip ==
    /\ Unused
    /\ g \in ClipSets
    /\ max_norm \in 1..MaxNorm
    /\ build \in {[DefaultBuild EXCEPT !.scalar = k] : k \in Scalars}
    /\ sets = <<>>
    /\ method = "none"
    /\ num_bits = 8
    /\ sparsity = 0

Clip ==
    /\ pc = "in"
    /\ env' = Ok(clip_gradients(g, max_norm, build.scalar))
    /\ pc' = "clipped"
    /\ UNCHANGED <<g, sets, method, num_bits, sparsity, max_norm, build, out,
                   clip_norm, disk>>

ClipAgain ==
    /\ pc = "clipped"
    /\ out' = Ok(clip_gradients(env.val, max_norm, build.scalar))
    /\ pc' = "clipped twice"
    /\ UNCHANGED <<g, sets, method, num_bits, sparsity, max_norm, build, env,
                   clip_norm, disk>>

NextClip == Clip \/ ClipAgain

SpecClip == InitClip /\ [][NextClip]_vars

-----------------------------------------------------------------------------
(* SpecGradient: aggregate_gradients of a list, gradient_statistics of a set *)

\* the gradient sets the aggregator is given: "w" of one or two elements,
\* with or without a one-element "b"
AggSets ==
    LET W == UNION {{Tensor(sh, [i \in 1..n |-> Int2Rat(d[i])]) :
                        sh \in ShapesOf(n), d \in [1..n -> {0 - 1, 2}]} :
                    n \in 1..2}
        B == {Tensor(<<1>>, <<Int2Rat(v)>>) : v \in {0, 1}}
    IN  {[name \in {"w"} |-> t] : t \in W}
        \cup {[name \in Names |-> IF name = "w" THEN t ELSE u] : t \in W, u \in B}

\* the lists of at most n of them
RECURSIVE ListsUpTo(_)
ListsUpTo(n) ==
    IF n = 0 THEN {<<>>}
    ELSE ListsUpTo(n - 1) \cup [1..n -> AggSets]

InitGradient ==
    /\ Unused
    /\ \/ sets \in ListsUpTo(MaxSets) /\ g = EmptyDict
       \/ sets = <<>> /\ g \in AggSets
    /\ build = DefaultBuild
    /\ method = "none"
    /\ num_bits = 8
    /\ sparsity = 0
    /\ max_norm = 0

Aggregate ==
    /\ pc = "in"
    /\ out' = aggregate_gradients(sets)
    /\ pc' = "aggregated"
    /\ UNCHANGED <<g, sets, method, num_bits, sparsity, max_norm, build, env,
                   clip_norm, disk>>

Statistics ==
    /\ pc = "in"
    /\ out' = gradient_statistics(g)
    /\ pc' = "statistics"
    /\ UNCHANGED <<g, sets, method, num_bits, sparsity, max_norm, build, env,
                   clip_norm, disk>>

NextGradient == Aggregate \/ Statistics

SpecGradient == InitGradient /\ [][NextGradient]_vars

-----------------------------------------------------------------------------
(* Properties of the quantizer *)

\* the scale the contract gives a tensor: (max - min) / (2^b - 1)
ContractScale(t, b) ==
    RDiv(RSub(SeqMax(t.data), SeqMin(t.data)), Int2Rat(Pow2(b) - 1))

IsConstant(t) == \A i \in 1..Len(t.data) : t.data[i] = t.data[1]

\* C2: for bit-widths 1..8, dequantize(quantize(g, b)) has the names and
\* shapes of g, every element is within scale/2 of the original, where scale
\* is the tensor's own (max - min) / (2^b - 1), and a constant tensor is
\* stored as zeros and reconstructed exactly.
C2_QuantRoundTrip ==
    (pc = "dequantized" /\ num_bits <= 8) =>
        /\ out.ok
        /\ SameLayout(out.val, g)
        /\ \A name \in DOMAIN g :
              LET t == g[name]
                  r == out.val[name]
                  half == RDiv(ContractScale(t, num_bits), Int2Rat(2))
              IN  /\ Len(r.data) = Len(t.data)
                  /\ \A i \in 1..Len(t.data) :
                        RLe(RAbs(RSub(r.data[i], t.data[i])), half)
                  /\ IsConstant(t) =>
                        /\ \A i \in 1..Len(t.data) :
                              env.val["gradients"][name].data[i] = 0
                        /\ r = t

\* a lossy round trip of a non-constant tensor beside a constant one
C2_Witness ==
    /\ pc = "dequantized"
    /\ num_bits <= 8
    /\ out.ok
    /\ DOMAIN g = Names
    /\ ~IsConstant(g["w"])
    /\ IsConstant(g["b"])
    /\ \E i \in 1..Len(g["w"].data) : out.val["w"].data[i] # g["w"].data[i]

\* C9: with bits > 8 quantize either is rejected or behaves exactly as with
\* bits = 8, and every stored element is round((x - lo) / scale) clamped to
\* [0, 2^bits - 1], unaltered by the one-byte storage.
C9_BitsAboveEight ==
    pc = "quantized" =>
        /\ num_bits > 8 =>
              \/ ~env.ok
              \/ env.val = quantize_gradients(g, 8, build.cast)
        /\ env.ok =>
              \A name \in DOMAIN g :
                 LET t == g[name]
                     scale == ContractScale(t, num_bits)
                 IN  ~IsConstant(t) =>
                        \A i \in 1..Len(t.data) :
                           env.val["gradients"][name].data[i]
                              = Clamp(RRound(RDiv(RSub(t.data[i], SeqMin(t.data)), scale)),
                                      0, Pow2(num_bits) - 1)

-----------------------------------------------------------------------------
(* Properties of the sparsifier *)

\* the k of the contract: max(1, round(n * (1 - sparsity)))
ContractK(n, s) ==
    LET r == RRound(Rat(n * (SparsityDen - s), SparsityDen))
    IN  IF r < 1 THEN 1 ELSE r

\* the flat offsets a sparse record selects
Selected(rec) == {rec.indices[j] : j \in 1..Len(rec.indices)}

\* C3: densify(sparsify(g, s)) has the names and shapes of g; each tensor
\* equals the original at the selected offsets and is zero elsewhere, so it
\* has at most k non-zero entries; every selected element is at least as
\* large in magnitude as every unselected one; with s = 0 the result is g.
C3_SparseRoundTrip ==
    pc = "densified" =>
        /\ out.ok
        /\ SameLayout(out.val, g)
        /\ \A name \in DOMAIN g :
              LET t == g[name]
                  r == out.val[name]
                  sel == Selected(env.val[name])
                  n == Len(t.data)
              IN  /\ Len(r.data) = n
                  /\ \A i \in 1..n :
                        r.data[i] = IF (i - 1) \in sel THEN t.data[i] ELSE Zero
                  /\ Cardinality({i \in 1..n : r.data[i] # Zero})
                        <= Len(env.val[name].indices)
                  /\ Cardinality({i \in 1..n : r.data[i] # Zero})
                        <= ContractK(n, sparsity)
                  /\ \A i, j \in 1..n :
                        ((i - 1) \in sel /\ (j - 1) \notin sel)
                           => RLe(RAbs(t.data[j]), RAbs(t.data[i]))
        /\ sparsity = 0 => out.val = g

\* a lossy round trip: a non-zero element was dropped, a negative one kept
C3_Witness ==
    /\ pc = "densified"
    /\ out.ok
    /\ sparsity > 0
    /\ \E i \in 1..Len(g["w"].data) :
          /\ g["w"].data[i] # Zero
          /\ out.val["w"].data[i] = Zero
    /\ \E i \in 1..Len(g["w"].data) :
          /\ g["w"].data[i].n < 0
          /\ out.val["w"].data[i] = g["w"].data[i]

\* C4: every record of sparsify has len(values) = len(indices) = k with
\* k = max(1, round(n * (1 - s))), and its indices are pairwise distinct
\* flat offsets in 0..n-1.
C4_TopKCount ==
    pc = "sparsified" =>
        \A name \in DOMAIN g :
           LET rec == env.val[name]
               n == Len(g[name].data)
           IN  /\ Len(rec.values) = ContractK(n, sparsity)
               /\ Len(rec.indices) = ContractK(n, sparsity)
               /\ \A i, j \in 1..Len(rec.indices) :
                     i # j => rec.indices[i] # rec.indices[j]
               /\ \A i \in 1..Len(rec.indices) :
                     rec.indices[i] \in 0..(n - 1)

-----------------------------------------------------------------------------
(* SpecMethod: the three entry points that take a method name:             *)
(* compress_gradients, decompress_gradients of an envelope that carries    *)
(* the name as its tag, and save_results                                   *)

\* one tensor "w" of one dimension, with or without a one-element "b"
MethodSets ==
    LET W == {t \in Tensors : Len(t.shape) = 1}
        B == {Tensor(<<1>>, <<Int2Rat(MaxVal)>>)}
    IN  {[name \in {"w"} |-> t] : t \in W}
        \cup {[name \in Names |-> IF name = "w" THEN t ELSE u] :
                t \in W, u \in B}

\* a max_norm no gradient set drawn exceeds: clip_gradients returns its
\* argument
NoClipNorm == (MaxLen + 1) * MaxVal

\* a clip that scales is drawn where the codec does no arithmetic on the
\* scaled values
InitMethod ==
    /\ pc = "in"
    /\ env = None
    /\ out = None
    /\ disk = EmptyDict
    /\ g \in MethodSets
    /\ method \in Methods \cup {OtherMethod}
    /\ clip_norm \in {None, Ok(NoClipNorm)}
                      \cup (IF method \in {"quantize", "sparsify"}
                            THEN {} ELSE {Ok(1)})
    /\ build \in {[DefaultBuild EXCEPT !.utils = u, !.scalar = sc] :
                    u \in BOOLEAN,
                    sc \in IF clip_norm = Ok(1) THEN Scalars
                           ELSE {"single"}}
    /\ num_bits = SaveBits
    /\ sparsity = SparsityDen - 1
    /\ sets = <<>>
    /\ max_norm = 0

\* the envelope of g that carries the tag m: the payload of the method
\* where there is one, the dense tensors otherwise
TaggedEnvelope(m) ==
    IF m = "quantize"
    THEN [x \in {"gradients", "params", "method"} |->
             IF x = "method" THEN m
             ELSE quantize_gradients(g, num_bits, build.cast)[x]]
    ELSE IF m = "sparsify"
    THEN [gradients |-> sparsify_gradients(g, Sparsity(sparsity), build.tie),
          method |-> m]
    ELSE [gradients |-> g, method |-> m]

DecompressTagged ==
    /\ pc = "in"
    /\ env' = Ok(TaggedEnvelope(method))
    /\ out' = decompress_gradients(TaggedEnvelope(method))
    /\ pc' = "tagged"
    /\ UNCHANGED <<g, sets, method, num_bits, sparsity, max_norm, build,
                   clip_norm, disk>>

\* the state after a call of save_results with outcome r
Saved(r) ==
    /\ env' = r.compressed
    /\ out' = r.ret
    /\ disk' = r.disk

SaveResults ==
    /\ pc = "in"
    /\ Saved(save_results(disk, Results(g), method, clip_norm, build))
    /\ pc' = "saved"
    /\ UNCHANGED <<g, sets, method, num_bits, sparsity, max_norm, build,
                   clip_norm>>

NextMethod == Compress \/ DecompressTagged \/ SaveResults

SpecMethod == InitMethod /\ [][NextMethod]_vars

-----------------------------------------------------------------------------
(* Properties of the facade *)

\* what the inverse of method m gives for g
InverseOf(m) ==
    IF m = "quantize"
    THEN dequantize_gradients(quantize_gradients(g, num_bits, build.cast)).val
    ELSE IF m = "sparsify"
    THEN densify_gradients(
             sparsify_gradients(g, Sparsity(sparsity), build.tie)).val
    ELSE g

\* C1: for every method in {none, quantize, sparsify} the envelope carries
\* the method tag, and decompress, given the envelope alone, succeeds and
\* returns the inverse of that method: a set with the names and shapes of g.
C1_SelfDescribing ==
    method \in Methods =>
        /\ pc \in {"compressed", "decompressed"} =>
              /\ env.ok
              /\ "method" \in DOMAIN env.val
              /\ env.val["method"] = method
        /\ pc = "decompressed" =>
              /\ out.ok
              /\ SameLayout(out.val, g)
              /\ out.val = InverseOf(method)

-----------------------------------------------------------------------------
(* Properties of the ratio estimate *)

RECURSIVE TotalElements(_)
TotalElements(d) ==
    IF DOMAIN d = {} THEN 0
    ELSE LET k == CHOOSE k \in DOMAIN d : TRUE
         IN  Len(d[k].data) + TotalElements([j \in DOMAIN d \ {k} |-> d[j]])

One == Int2Rat(1)

\* C8 as stated: with at least one non-constant tensor, the estimated ratio
\* of 8-bit quantization is above 1 whatever the number and size of tensors.
C8_QuantizeAlwaysSmaller ==
    (pc = "estimated" /\ method = "quantize"
        /\ \E name \in DOMAIN g : ~IsConstant(g[name]))
    => (out.ok /\ RLt(One, out.val))

\* C8 as amended: the estimated ratio of 8-bit quantization is above 1
\* exactly when 3 * elements > 16 * tensors (4 bytes per element against
\* 1 byte per element plus 16 bytes per tensor), constant tensors or not.
C8_QuantizeSmallerIff ==
    (pc = "estimated" /\ method = "quantize") =>
        /\ out.ok
        /\ RLt(One, out.val)
              <=> 3 * TotalElements(g) > 16 * Cardinality(DOMAIN g)
        /\ out.val = Rat(4 * TotalElements(g),
                         TotalElements(g) + 16 * Cardinality(DOMAIN g))

\* a set with a non-constant tensor whose estimate is above 1
C8_Witness ==
    /\ pc = "estimated"
    /\ method = "quantize"
    /\ DOMAIN g = Names
    /\ ~IsConstant(g["w"])
    /\ RLt(One, out.val)

-----------------------------------------------------------------------------
(* Properties of the clipper *)

\* C7: clipping is idempotent: the output of clip has global L2 norm at
\* most max_norm, so the second clip returns its input unchanged.
C7_ClipIdempotent ==
    pc = "clipped twice" =>
        /\ ~FLt(FOfInt(max_norm), compute_gradient_norm(env.val))
        /\ out.val = env.val

-----------------------------------------------------------------------------
(* Properties of the aggregator and of the statistics *)

Compatible(list) == \A i \in 1..Len(list) : SameLayout(list[i], list[1])

Reverse(list) == [i \in 1..Len(list) |-> list[Len(list) + 1 - i]]

RECURSIVE ElementSum(_, _, _)
\* the sum over the sets of element i of tensor name
ElementSum(list, name, i) ==
    IF list = <<>> THEN Zero
    ELSE RAdd(Head(list)[name].data[i], ElementSum(Tail(list), name, i))

\* C5: given a non-empty list in which some set has not exactly the names
\* and shapes of the first, aggregate fails with the shape-mismatch error:
\* it returns no set and raises nothing else.
C5_MismatchRaises ==
    (pc = "aggregated" /\ sets # <<>> /\ ~Compatible(sets)) =>
        (~out.ok /\ out.err = "ShapeMismatchError")

\* C6: for a non-empty list of sets with identical names and shapes,
\* aggregate returns a set of those names and shapes whose every element is
\* the arithmetic mean of the corresponding elements, and the result is the
\* same for the list in the opposite order.
C6_AggregateIsMean ==
    (pc = "aggregated" /\ sets # <<>> /\ Compatible(sets)) =>
        /\ out.ok
        /\ SameLayout(out.val, sets[1])
        /\ \A name \in DOMAIN sets[1] :
              /\ Len(out.val[name].data) = Len(sets[1][name].data)
              /\ \A i \in 1..Len(sets[1][name].data) :
                    RMul(out.val[name].data[i], Int2Rat(Len(sets)))
                       = ElementSum(sets, name, i)
        /\ out = aggregate_gradients(Reverse(sets))

\* two different compatible sets of two tensors, averaged to a fraction
C6_Witness ==
    /\ pc = "aggregated"
    /\ Len(sets) = 2
    /\ Compatible(sets)
    /\ sets[1] # sets[2]
    /\ DOMAIN sets[1] = Names
    /\ out.ok
    /\ \E i \in 1..Len(out.val["w"].data) : out.val["w"].data[i].d = 2

\* C10: statistics of an empty set and aggregate of an empty list fail;
\* neither returns a value.
C10_EmptyInputFails ==
    /\ (pc = "statistics" /\ g = EmptyDict) => ~out.ok
    /\ (pc = "aggregated" /\ sets = <<>>) => ~out.ok

-----------------------------------------------------------------------------
(* Properties of the method name *)

\* C11: a method name outside {none, quantize, sparsify} fails at every
\* entry point that takes one: compress raises and returns no envelope,
\* decompress raises for an envelope with such a tag, and save_results
\* raises and writes neither a gradients artifact nor a metrics record.
C11_UnknownMethodFails ==
    method \notin Methods =>
        /\ pc = "compressed" => ~env.ok
        /\ pc = "tagged" => ~out.ok
        /\ pc = "saved" =>
              /\ ~out.ok
              /\ GradientsFile \notin DOMAIN disk
              /\ MetricsFile \notin DOMAIN disk

\* the two entry points of compression.py do raise for such a name
C11_CodecRaises ==
    method \notin Methods =>
        /\ pc = "compressed" => env = Raise("ValueError")
        /\ pc = "tagged" => out = Raise("ValueError")

\* save_results returned, and wrote the dense tensors under the tag none
\* and a metrics record that names the unknown method
C11_Substituted ==
    /\ pc = "saved"
    /\ method = OtherMethod
    /\ build.utils
    /\ out = Returned
    /\ disk[GradientsFile]["method"] = "none"
    /\ disk[MetricsFile].compression_method = OtherMethod

====
